---- MODULE Spec2Model ----
(***************************************************************************)
(* Model of mercurius-validation's JSON Schema validator                   *)
(* (lib/validators/json-schema-validator.js) and of the plugin entry point *)
(* that drives it (index.js).                                              *)
(*                                                                         *)
(* A JSON schema fragment is a function from keys to values, so that the   *)
(* object spread { ...a, ...b } is Merge(a, b).  Reference ids are strings *)
(* built by concatenation, as the template literals of the source do.      *)
(***************************************************************************)
EXTENDS Integers, Sequences, FiniteSets, TLC

VARIABLES
    kAjv,                \* this[kAjv]: the backend instance request-time validation reads
    pc,                  \* "boot" | "pass" | "idle" | "aborted"
    graphqlGateway,      \* app.graphqlGateway is set
    hookInstalled,       \* the onGatewayReplaceSchema hook has been added
    schema,              \* the schema argument of the running / last pass
    validationSchema,    \* the validationSchema argument of the running / last pass
    typeIdx,             \* position of the walk over schema.getTypeMap()
    schemasToRegister,   \* the local list of the running / last pass
    regIdx,              \* position of the addSchema loop
    compIdx,             \* position of the getSchema loop
    intercepted,         \* fields of `schema` whose resolver has been overridden
    events,              \* addSchema / getSchema calls of the running / last pass
    passes,              \* number of passes started
    outcome,             \* "none" | "ok" | "failed": how the last finished pass ended
    error,               \* what the last failed pass threw
    lastGood,            \* kAjv as it was when the last successful pass returned
    completed,           \* every kAjv value a successful pass returned with
    observed,            \* the registry the last request-time validation read
    position,            \* synthesizer input: the typed position
    override,            \* synthesizer input: the override entry (or Null)
    result,              \* synthesizer output
    synthDone            \* the synthesizer has run

vars == <<kAjv, pc, graphqlGateway, hookInstalled, schema, validationSchema,
          typeIdx, schemasToRegister, regIdx, compIdx, intercepted, events,
          passes, outcome, error, lastGood, completed, observed,
          position, override, result, synthDone>>

passVars == <<kAjv, pc, graphqlGateway, hookInstalled, schema, validationSchema,
              typeIdx, schemasToRegister, regIdx, compIdx, intercepted, events,
              passes, outcome, error, lastGood, completed, observed>>

synthVars == <<position, override, result, synthDone>>

(***************************************************************************)
(* Bounds                                                                  *)
(***************************************************************************)
MaxPasses == 2

(***************************************************************************)
(* JavaScript values                                                       *)
(***************************************************************************)
Null == [null |-> TRUE]

EmptyObj == <<>>

\* { ...a, ...b }
Merge(a, b) == [k \in (DOMAIN a) \cup (DOMAIN b) |-> IF k \in DOMAIN b THEN b[k] ELSE a[k]]

\* o[key], spreading nothing when the key is undefined
SpreadOf(o, key) == IF key \in DOMAIN o THEN o[key] ELSE EmptyObj

\* o[key] || null
OrNull(o, key) == IF o # Null /\ key \in DOMAIN o THEN o[key] ELSE Null

\* a JSON schema `type` keyword: a single name or a list of names
TStr(n) == [isArray |-> FALSE, names |-> <<n>>]

TArr(ns) == [isArray |-> TRUE, names |-> ns]

\* a `type` value that is neither a string nor an array
TOther == [isArray |-> FALSE, names |-> <<>>]

Base == "https://mercurius.dev/validation/"

(***************************************************************************)
(* lib/utils.js (not part of the sources at hand; modelled from the        *)
(* specification, sections 3 and 4.1)                                      *)
(***************************************************************************)
Pos(leaf, kind, isList, isNonNull, itemIsNonNull) ==
    [leaf |-> leaf, kind |-> kind, isList |-> isList,
     isNonNull |-> isNonNull, itemIsNonNull |-> itemIsNonNull]

\* [type, namedType, isNonNull] of a field or argument
getTypeInfo(p) ==
    [isList |-> p.isList, named |-> [name |-> p.leaf, kind |-> p.kind], isNonNull |-> p.isNonNull]

JSONTypeName(kind) ==
    CASE kind = "String"  -> "string"
      [] kind = "ID"      -> "string"
      [] kind = "Int"     -> "integer"
      [] kind = "Float"   -> "number"
      [] kind = "Boolean" -> "boolean"

Primitives == {"String", "ID", "Int", "Float", "Boolean"}

inferJSONSchemaType(namedType, isNonNull) ==
    IF namedType.kind \in Primitives
    THEN IF isNonNull
         THEN [type |-> TStr(JSONTypeName(namedType.kind))]
         ELSE [type |-> TArr(<<JSONTypeName(namedType.kind), "null">>)]
    ELSE EmptyObj

isInputObjectType(namedType) == namedType.kind = "input"

(***************************************************************************)
(* kValidationSchema                                                       *)
(***************************************************************************)
RefIdRelative(name) == name

\* the $ref of a position whose leaf is the input object type `name`
RefId(name) == Base \o name

\* the branches on the leaf and the list wrapper, applied to the inferred
\* fragment tagged with its $id
Shape(isList, namedType, isNonNull, typeValidation, built) ==
    IF isInputObjectType(namedType)
    THEN IF isList
         THEN Merge(built, [type |-> TStr("array"),
                            items |-> Merge(SpreadOf(built, "items"), "$ref" :> RefId(namedType.name)),
                            nullable |-> ~isNonNull])
         ELSE Merge(built, ("type" :> TStr("object")) @@ ("$ref" :> RefId(namedType.name))
                              @@ ("nullable" :> ~isNonNull))
    ELSE IF isList
         THEN Merge(built,
                [type |-> TStr("array"),
                 items |-> Merge(Merge(inferJSONSchemaType(namedType, isNonNull), SpreadOf(built, "items")),
                                 IF typeValidation # Null THEN SpreadOf(typeValidation, "items") ELSE EmptyObj),
                 nullable |-> ~isNonNull])
         ELSE built

\* builtValidationSchema as it is before the merge with the override
Synthesized(isList, namedType, isNonNull, typeValidation, id) ==
    Shape(isList, namedType, isNonNull, typeValidation,
          Merge(inferJSONSchemaType(namedType, isNonNull), "$id" :> id))

\* "Merge with existing validation"
MergeValidationOverrideWins(typeValidation, built) ==
    IF typeValidation # Null THEN Merge(built, typeValidation) ELSE built

MergeValidation(typeValidation, built) ==
    IF typeValidation # Null THEN Merge(typeValidation, built) ELSE built

kValidationSchema(isList, namedType, isNonNull, typeValidation, id) ==
    MergeValidation(typeValidation, Synthesized(isList, namedType, isNonNull, typeValidation, id))

(***************************************************************************)
(* Reference ids                                                           *)
(***************************************************************************)
\* $id of the type-level unit of an input object type
TypeId(typeName) == Base \o typeName

\* $id of a field's argument-object unit
ArgumentsId(typeName, fieldName) == Base \o typeName \o "/" \o fieldName

\* $id of an input object field's fragment
InputFieldId(typeName, fieldName) == Base \o typeName \o "/" \o fieldName

ArgumentIdNoField(typeName, fieldName, argumentName) ==
    Base \o typeName \o "/" \o argumentName

\* $id of one argument's fragment
ArgumentId(typeName, fieldName, argumentName) ==
    Base \o typeName \o "/" \o fieldName \o "/" \o argumentName

(***************************************************************************)
(* kBuildArgumentsSchema                                                   *)
(***************************************************************************)
\* one iteration of the loop over schemaTypeField.args
ArgumentSchema(typeName, fieldName, argument, fieldValidation) ==
    kValidationSchema(getTypeInfo(argument.pos).isList,
                      getTypeInfo(argument.pos).named,
                      getTypeInfo(argument.pos).isNonNull,
                      OrNull(fieldValidation, argument.name),
                      ArgumentId(typeName, fieldName, argument.name))

\* the loop over schemaTypeField.args, filling properties
ArgumentProperties(typeName, fieldName, args, fieldValidation) ==
    [name \in {args[i].name : i \in 1..Len(args)} |->
        ArgumentSchema(typeName, fieldName,
                       args[CHOOSE i \in 1..Len(args) : args[i].name = name], fieldValidation)]

kBuildArgumentsSchema(typeName, fieldName, schemaTypeField, fieldValidation) ==
    ("$id" :> ArgumentsId(typeName, fieldName))
    @@ ("type" :> TStr("object"))
    @@ ("properties" :> ArgumentProperties(typeName, fieldName, schemaTypeField.args, fieldValidation))

\* Validator's kOverrideFieldResolver (lib/validators/validator.js is not part
\* of the sources at hand; modelled from the specification, section 4.3: the
\* field is marked for interception)
kOverrideFieldResolver(fields, typeName, schemaTypeField) ==
    fields \cup {<<typeName, schemaTypeField.name>>}

(***************************************************************************)
(* kBuildInputTypeFieldSchema: either throws                               *)
(* MER_VALIDATION_ERR_FIELD_TYPE_UNDEFINED(id) or returns a fragment or    *)
(* null                                                                    *)
(***************************************************************************)
\* typeof type === 'string' || Array.isArray(type)
IsConcreteType(fragment) ==
    "type" \in DOMAIN fragment /\ (fragment["type"].isArray \/ Len(fragment["type"].names) = 1)

\* the checks on the fragment built for the field
FieldSchemaOrThrowStrict(fieldValidation, built) ==
    IF ~ ("type" \in DOMAIN built)
    THEN [threw |-> TRUE, id |-> built["$id"], schema |-> Null]
    ELSE [threw |-> FALSE, id |-> "", schema |-> built]

FieldSchemaOrThrow(fieldValidation, built) ==
    IF fieldValidation # Null /\ ~ ("type" \in DOMAIN built)
    THEN [threw |-> TRUE, id |-> built["$id"], schema |-> Null]
    ELSE IF IsConcreteType(built)
         THEN [threw |-> FALSE, id |-> "", schema |-> built]
         ELSE [threw |-> FALSE, id |-> "", schema |-> Null]

kBuildInputTypeFieldSchema(typeName, fieldName, schemaTypeField, fieldValidation) ==
    FieldSchemaOrThrow(fieldValidation,
        kValidationSchema(getTypeInfo(schemaTypeField.pos).isList,
                          getTypeInfo(schemaTypeField.pos).named,
                          getTypeInfo(schemaTypeField.pos).isNonNull,
                          fieldValidation,
                          InputFieldId(typeName, fieldName)))

(***************************************************************************)
(* registerValidationSchema: the body of the loop over the type map, for   *)
(* one type                                                                *)
(***************************************************************************)
startsWith(s, prefix) == Len(s) >= Len(prefix) /\ SubSeq(s, 1, Len(prefix)) = prefix

\* typeof schemaType.getFields === 'function'
HasGetFields(schemaType) == schemaType.kind \in {"object", "input"}

HasArgsDefined(schemaTypeField) == schemaTypeField.argsDefined

\* typeof args !== 'undefined' && Object.keys(args).length > 0
HasArgs(schemaTypeField) == schemaTypeField.argsDefined /\ Len(schemaTypeField.args) > 0

\* the initial typeValidationSchema of every type
InitialTypeValidationSchema(typeName) ==
    ("$id" :> TypeId(typeName)) @@ ("type" :> TStr("object"))
    @@ ("nullable" :> TRUE) @@ ("properties" :> EmptyObj)

\* typeValidationSchema with the __typeValidation of an input object type merged in
TypeValidationSchema(typeName, schemaType, typeValidation) ==
    IF /\ schemaType.kind = "input"
       /\ typeValidation # Null
       /\ "__typeValidation" \in DOMAIN typeValidation
    THEN Merge(typeValidation["__typeValidation"], InitialTypeValidationSchema(typeName))
    ELSE InitialTypeValidationSchema(typeName)

\* what the loop over schemaType.getFields() does with one field
FieldResult(typeName, schemaType, schemaTypeField, fieldValidation) ==
    IF HasArgs(schemaTypeField)
    THEN [kind |-> "arguments", threw |-> FALSE, id |-> "",
          schema |-> kBuildArgumentsSchema(typeName, schemaTypeField.name, schemaTypeField, fieldValidation)]
    ELSE IF schemaType.kind = "input"
         THEN [kind |-> "inputField"]
              @@ kBuildInputTypeFieldSchema(typeName, schemaTypeField.name, schemaTypeField, fieldValidation)
         ELSE [kind |-> "skipped", threw |-> FALSE, id |-> "", schema |-> Null]

\* the index of the first field that throws, or one past the last field
FirstThrow(res) ==
    IF \E i \in DOMAIN res : res[i].threw
    THEN CHOOSE i \in DOMAIN res : res[i].threw /\ \A j \in 1..(i - 1) : ~ res[j].threw
    ELSE Len(res) + 1

\* the properties set on the type-level unit by the fields in `kept`
FieldProperties(schemaType, res, kept) ==
    [name \in {schemaType.fields[i].name : i \in kept} |->
        res[CHOOSE i \in kept : schemaType.fields[i].name = name].schema]

\* the state of the loop when it has run over the fields before throwAt
WalkUpTo(typeName, schemaType, typeUnit, fields, res, throwAt) ==
    [units       |-> [i \in 1..Len(SelectSeq(SubSeq(res, 1, throwAt - 1), LAMBDA r : r.kind = "arguments")) |->
                        SelectSeq(SubSeq(res, 1, throwAt - 1), LAMBDA r : r.kind = "arguments")[i].schema],
     typeUnit    |-> Merge(typeUnit, "properties" :>
                        FieldProperties(schemaType, res,
                            {i \in 1..(throwAt - 1) : res[i].kind = "inputField" /\ res[i].schema # Null})),
     intercepted |-> fields \cup UNION { kOverrideFieldResolver({}, typeName, schemaType.fields[i]) :
                                           i \in {j \in 1..(throwAt - 1) : res[j].kind = "arguments"} },
     threw       |-> throwAt <= Len(res),
     errId       |-> IF throwAt <= Len(res) THEN res[throwAt].id ELSE ""]

WalkResults(typeName, schemaType, typeUnit, fields, res) ==
    WalkUpTo(typeName, schemaType, typeUnit, fields, res, FirstThrow(res))

\* the loop over schemaType.getFields(): it runs up to the first field that
\* throws; the result carries the argument units pushed, the type-level unit,
\* the fields intercepted and the throw
WalkFields(typeName, schemaType, typeValidation, typeUnit, fields) ==
    WalkResults(typeName, schemaType, typeUnit, fields,
        [i \in 1..Len(schemaType.fields) |->
            FieldResult(typeName, schemaType, schemaType.fields[i],
                        OrNull(typeValidation, schemaType.fields[i].name))])

\* schemasToRegister.push(typeValidationSchema) for an input object type
PushTypeUnit(schemaType, acc) ==
    IF ~ acc.threw /\ schemaType.kind = "input"
    THEN [acc EXCEPT !.units = Append(@, acc.typeUnit)]
    ELSE acc

\* one iteration of the loop over Object.entries(schema.getTypeMap())
ProcessType(schemaType, validation, fields) ==
    IF ~ startsWith(schemaType.name, "__") /\ HasGetFields(schemaType)
    THEN PushTypeUnit(schemaType,
            WalkFields(schemaType.name, schemaType, OrNull(validation, schemaType.name),
                       TypeValidationSchema(schemaType.name, schemaType, OrNull(validation, schemaType.name)),
                       fields))
    ELSE [units |-> <<>>, typeUnit |-> EmptyObj, intercepted |-> fields,
          threw |-> FALSE, errId |-> ""]

(***************************************************************************)
(* The Ajv instance: the schemas added, keyed by $id, and the ids compiled *)
(***************************************************************************)
NoAjv == [inst |-> 0, schemas |-> EmptyObj, compiled |-> {}]

NewAjvReuse(old, inst) == [old EXCEPT !.inst = inst]

\* this[kAjv] = new Ajv(...): a fresh, empty instance
NewAjv(old, inst) == [inst |-> inst, schemas |-> EmptyObj, compiled |-> {}]

\* every $ref a fragment carries, at any depth
RECURSIVE Refs(_)
Refs(fragment) ==
    (IF "$ref" \in DOMAIN fragment THEN {fragment["$ref"]} ELSE {})
    \cup (IF "items" \in DOMAIN fragment THEN Refs(fragment["items"]) ELSE {})
    \cup (IF "properties" \in DOMAIN fragment
          THEN UNION {Refs(fragment["properties"][n]) : n \in DOMAIN fragment["properties"]}
          ELSE {})

\* the meta-schema check of addSchema: size keywords are non-negative
\* integers, `type` is a name or a list of names
RECURSIVE SchemaValid(_)
SchemaValid(fragment) ==
    /\ \A k \in {"minLength", "minItems", "minProperties"} :
          k \in DOMAIN fragment => fragment[k] >= 0
    /\ "type" \in DOMAIN fragment => fragment["type"] # TOther
    /\ "items" \in DOMAIN fragment => SchemaValid(fragment["items"])
    /\ "properties" \in DOMAIN fragment =>
          \A n \in DOMAIN fragment["properties"] : SchemaValid(fragment["properties"][n])

\* this[kAjv].addSchema(schemaToRegister, schemaToRegister.$id)
AddSchemaThrows(ajv, fragment) ==
    fragment["$id"] \in DOMAIN ajv.schemas \/ ~ SchemaValid(fragment)

AddSchema(ajv, fragment) ==
    [ajv EXCEPT !.schemas = Merge(@, fragment["$id"] :> fragment)]

\* this[kAjv].getSchema(id): compiles the schema on first use, resolving its
\* references against the schemas added
GetSchemaThrows(ajv, id) ==
    id \in DOMAIN ajv.schemas /\ ~ (Refs(ajv.schemas[id]) \subseteq DOMAIN ajv.schemas)

GetSchema(ajv, id) ==
    IF id \in DOMAIN ajv.schemas THEN [ajv EXCEPT !.compiled = @ \cup {id}] ELSE ajv

(***************************************************************************)
(* The schemas and validation schemas the passes are run on                *)
(***************************************************************************)
Arg(name, pos) == [name |-> name, pos |-> pos]

\* a field of an object type: args is a list, possibly empty
Field(name, args, pos) == [name |-> name, argsDefined |-> TRUE, args |-> args, pos |-> pos]

\* a field of an input object type: args is undefined
InputField(name, pos) == [name |-> name, argsDefined |-> FALSE, args |-> <<>>, pos |-> pos]

StringPos == Pos("String", "String", FALSE, FALSE, FALSE)

QueryT ==
    [name |-> "Query", kind |-> "object", fields |-> <<
        Field("message",
              << Arg("text", StringPos),
                 Arg("filters", Pos("Filters", "input", FALSE, FALSE, FALSE)),
                 Arg("many", Pos("Filters", "input", TRUE, TRUE, TRUE)),
                 Arg("tags", Pos("String", "String", TRUE, FALSE, TRUE)) >>,
              StringPos),
        Field("text", << Arg("limit", Pos("Int", "Int", FALSE, TRUE, FALSE)) >>, StringPos),
        Field("ping", <<>>, StringPos) >>]

FiltersT ==
    [name |-> "Filters", kind |-> "input", fields |-> <<
        InputField("text", StringPos),
        InputField("tags", Pos("String", "String", TRUE, FALSE, TRUE)),
        InputField("kind", Pos("Kind", "enum", FALSE, FALSE, FALSE)),
        InputField("other", Pos("Other", "input", FALSE, FALSE, FALSE)) >>]

OtherT ==
    [name |-> "Other", kind |-> "input", fields |-> <<
        InputField("back", Pos("Filters", "input", FALSE, TRUE, FALSE)),
        InputField("count", Pos("Int", "Int", FALSE, TRUE, FALSE)) >>]

StringT == [name |-> "String", kind |-> "scalar", fields |-> <<>>]

KindT == [name |-> "Kind", kind |-> "enum", fields |-> <<>>]

IntrospectionT ==
    [name |-> "__Type", kind |-> "object", fields |-> <<
        Field("fields", << Arg("includeDeprecated", Pos("Boolean", "Boolean", FALSE, FALSE, FALSE)) >>, StringPos),
        Field("name", <<>>, StringPos) >>]

PayloadT ==
    [name |-> "Payload", kind |-> "input", fields |-> <<
        InputField("body", Pos("String", "String", FALSE, TRUE, FALSE)),
        InputField("kind", Pos("Kind", "enum", FALSE, FALSE, FALSE)) >>]

MutationT ==
    [name |-> "Mutation", kind |-> "object", fields |-> <<
        Field("send", << Arg("payload", Pos("Payload", "input", FALSE, TRUE, FALSE)) >>, StringPos),
        Field("noop", <<>>, StringPos) >>]

\* the type maps, in iteration order
FilterSchema == << QueryT, FiltersT, OtherT, StringT, KindT, IntrospectionT >>

MutationSchema == << MutationT, PayloadT, StringT, IntrospectionT >>

Schemas == {FilterSchema, MutationSchema}

NoValidation == EmptyObj

GoodValidation ==
    [Filters |-> [ __typeValidation |-> [minProperties |-> 1],
                   text |-> [minLength |-> 3],
                   kind |-> [type |-> TStr("string")] ],
     Query   |-> [ message |-> [ text    |-> [minLength |-> 1],
                                 filters |-> [minProperties |-> 1],
                                 tags    |-> [items |-> [minLength |-> 2], nullable |-> FALSE] ] ],
     Payload |-> [ body |-> [minLength |-> 1], kind |-> [type |-> TOther] ],
     __Type  |-> [ fields |-> [ includeDeprecated |-> [minLength |-> 1] ] ] ]

\* an override on a field whose type cannot be inferred
UntypedValidation ==
    [Filters |-> [ kind |-> [minLength |-> 3] ],
     Payload |-> [ kind |-> EmptyObj ] ]

\* fragments the meta-schema rejects
InvalidValidation ==
    [Filters  |-> [ text |-> [minLength |-> -1] ],
     Mutation |-> [ send |-> [ payload |-> [minProperties |-> -1] ] ] ]

\* a reference to a schema nobody registers
DanglingValidation ==
    [Query |-> [ message |-> [ text |-> ("$ref" :> (Base \o "Missing")) ] ] ]

ValidationSchemas ==
    {NoValidation, GoodValidation, UntypedValidation, InvalidValidation, DanglingValidation}


(***************************************************************************)
(* The synthesizer inputs of the second specification                      *)
(***************************************************************************)
Leaves == { [name |-> "String", kind |-> "String"], [name |-> "Int", kind |-> "Int"],
            [name |-> "Kind", kind |-> "enum"], [name |-> "Filters", kind |-> "input"] }

Positions ==
    { Pos(l.name, l.kind, FALSE, n, FALSE) : l \in Leaves, n \in BOOLEAN }
    \cup { Pos(l.name, l.kind, TRUE, n[1], n[2]) : l \in Leaves, n \in BOOLEAN \X BOOLEAN }

Overrides ==
    { Null,
      EmptyObj,
      [minLength |-> 3],
      [minProperties |-> 1],
      [type |-> TStr("string")],
      [nullable |-> FALSE, minItems |-> 1],
      [items |-> [minLength |-> 2]],
      ("$ref" :> (Base \o "Filters/text")) @@ ("$id" :> "mine") }

SynthId == Base \o "Query/message/arg"

(***************************************************************************)
(* Initial state: the plugin is about to be registered                     *)
(***************************************************************************)
NoPosition == Pos("String", "String", FALSE, FALSE, FALSE)

Init ==
    /\ kAjv = NoAjv
    /\ pc = "boot"
    /\ graphqlGateway \in BOOLEAN
    /\ hookInstalled = FALSE
    /\ schema = <<>>
    /\ validationSchema = NoValidation
    /\ typeIdx = 1
    /\ schemasToRegister = <<>>
    /\ regIdx = 1
    /\ compIdx = 1
    /\ intercepted = {}
    /\ events = <<>>
    /\ passes = 0
    /\ outcome = "none"
    /\ error = [kind |-> "none", id |-> ""]
    /\ lastGood = NoAjv
    /\ completed = {}
    /\ observed = NoAjv
    /\ position = NoPosition
    /\ override = Null
    /\ result = Null
    /\ synthDone = FALSE

(***************************************************************************)
(* registerValidationSchema.  The function is synchronous: from its first  *)
(* statement to its return or throw (pc = "pass") no other handler runs.   *)
(* Its steps are the iterations of its three loops.                        *)
(***************************************************************************)
\* the statements before the loops
BeginPass(s, v) ==
    /\ kAjv' = NewAjv(kAjv, passes + 1)
    /\ schema' = s
    /\ validationSchema' = v
    /\ typeIdx' = 1
    /\ schemasToRegister' = <<>>
    /\ regIdx' = 1
    /\ compIdx' = 1
    /\ intercepted' = {}
    /\ events' = <<>>
    /\ passes' = passes + 1
    /\ pc' = "pass"
    /\ UNCHANGED <<graphqlGateway, hookInstalled, outcome, error, lastGood, completed, observed>>
    /\ UNCHANGED synthVars

\* index.js: validation.registerValidationSchema(app.graphql.schema)
InitialLoad ==
    /\ pc = "boot"
    /\ \E s \in Schemas, v \in ValidationSchemas : BeginPass(s, v)

\* index.js: the onGatewayReplaceSchema hook
ReplaceSchema ==
    /\ pc = "idle"
    /\ hookInstalled
    /\ passes < MaxPasses
    /\ \E s \in Schemas, v \in ValidationSchemas : BeginPass(s, v)

\* the pass throws: the plugin fails to load, or the hook rejects
Throw(kind, id) ==
    /\ outcome' = "failed"
    /\ error' = [kind |-> kind, id |-> id]
    /\ pc' = IF hookInstalled THEN "idle" ELSE "aborted"

\* one iteration of the loop over the type map that does not throw
WalkType ==
    /\ pc = "pass"
    /\ typeIdx <= Len(schema)
    /\ \E r \in {ProcessType(schema[typeIdx], validationSchema, intercepted)} :
          /\ ~ r.threw
          /\ schemasToRegister' = schemasToRegister \o r.units
          /\ intercepted' = r.intercepted
    /\ typeIdx' = typeIdx + 1
    /\ UNCHANGED <<kAjv, pc, graphqlGateway, hookInstalled, schema, validationSchema,
                   regIdx, compIdx, events, passes, outcome, error, lastGood,
                   completed, observed>>
    /\ UNCHANGED synthVars

\* one iteration of the loop over the type map that throws
WalkThrow ==
    /\ pc = "pass"
    /\ typeIdx <= Len(schema)
    /\ \E r \in {ProcessType(schema[typeIdx], validationSchema, intercepted)} :
          /\ r.threw
          /\ intercepted' = r.intercepted
          /\ Throw("MER_VALIDATION_ERR_FIELD_TYPE_UNDEFINED", r.errId)
    /\ UNCHANGED <<kAjv, graphqlGateway, hookInstalled, schema, validationSchema, typeIdx,
                   schemasToRegister, regIdx, compIdx, events, passes, lastGood,
                   completed, observed>>
    /\ UNCHANGED synthVars

CompileMayStartEarly(i, units) == i > 1

\* the getSchema loop starts when the addSchema loop has run over every unit
CompileMayStart(i, units) == i > Len(units)

\* one iteration of the addSchema loop
Register ==
    /\ pc = "pass"
    /\ typeIdx > Len(schema)
    /\ regIdx <= Len(schemasToRegister)
    /\ ~ AddSchemaThrows(kAjv, schemasToRegister[regIdx])
    /\ kAjv' = AddSchema(kAjv, schemasToRegister[regIdx])
    /\ events' = Append(events, [op |-> "addSchema", id |-> schemasToRegister[regIdx]["$id"]])
    /\ regIdx' = regIdx + 1
    /\ UNCHANGED <<pc, graphqlGateway, hookInstalled, schema, validationSchema, typeIdx,
                   schemasToRegister, compIdx, intercepted, passes, outcome, error,
                   lastGood, completed, observed>>
    /\ UNCHANGED synthVars

RegisterThrow ==
    /\ pc = "pass"
    /\ typeIdx > Len(schema)
    /\ regIdx <= Len(schemasToRegister)
    /\ AddSchemaThrows(kAjv, schemasToRegister[regIdx])
    /\ events' = Append(events, [op |-> "addSchema", id |-> schemasToRegister[regIdx]["$id"]])
    /\ Throw("addSchema", schemasToRegister[regIdx]["$id"])
    /\ UNCHANGED <<kAjv, graphqlGateway, hookInstalled, schema, validationSchema, typeIdx,
                   schemasToRegister, regIdx, compIdx, intercepted, passes, lastGood,
                   completed, observed>>
    /\ UNCHANGED synthVars

\* one iteration of the getSchema loop
Compile ==
    /\ pc = "pass"
    /\ typeIdx > Len(schema)
    /\ CompileMayStart(regIdx, schemasToRegister)
    /\ compIdx <= Len(schemasToRegister)
    /\ ~ GetSchemaThrows(kAjv, schemasToRegister[compIdx]["$id"])
    /\ kAjv' = GetSchema(kAjv, schemasToRegister[compIdx]["$id"])
    /\ events' = Append(events, [op |-> "getSchema", id |-> schemasToRegister[compIdx]["$id"]])
    /\ compIdx' = compIdx + 1
    /\ UNCHANGED <<pc, graphqlGateway, hookInstalled, schema, validationSchema, typeIdx,
                   schemasToRegister, regIdx, intercepted, passes, outcome, error,
                   lastGood, completed, observed>>
    /\ UNCHANGED synthVars

CompileThrow ==
    /\ pc = "pass"
    /\ typeIdx > Len(schema)
    /\ CompileMayStart(regIdx, schemasToRegister)
    /\ compIdx <= Len(schemasToRegister)
    /\ GetSchemaThrows(kAjv, schemasToRegister[compIdx]["$id"])
    /\ events' = Append(events, [op |-> "getSchema", id |-> schemasToRegister[compIdx]["$id"]])
    /\ Throw("getSchema", schemasToRegister[compIdx]["$id"])
    /\ UNCHANGED <<kAjv, graphqlGateway, hookInstalled, schema, validationSchema, typeIdx,
                   schemasToRegister, regIdx, compIdx, intercepted, passes, lastGood,
                   completed, observed>>
    /\ UNCHANGED synthVars

\* the pass returns; after the initial load index.js adds the hook when the
\* application is a gateway
Return ==
    /\ pc = "pass"
    /\ typeIdx > Len(schema)
    /\ regIdx > Len(schemasToRegister)
    /\ compIdx > Len(schemasToRegister)
    /\ pc' = "idle"
    /\ outcome' = "ok"
    /\ hookInstalled' = (hookInstalled \/ graphqlGateway)
    /\ lastGood' = kAjv
    /\ completed' = completed \cup {kAjv}
    /\ UNCHANGED <<kAjv, graphqlGateway, schema, validationSchema, typeIdx,
                   schemasToRegister, regIdx, compIdx, intercepted, events, passes,
                   error, observed>>
    /\ UNCHANGED synthVars

\* an intercepted resolver runs: it reads this[kAjv]
Request ==
    /\ pc = "idle"
    /\ observed' = kAjv
    /\ UNCHANGED <<kAjv, pc, graphqlGateway, hookInstalled, schema, validationSchema,
                   typeIdx, schemasToRegister, regIdx, compIdx, intercepted, events,
                   passes, outcome, error, lastGood, completed>>
    /\ UNCHANGED synthVars

Next ==
    \/ InitialLoad
    \/ ReplaceSchema
    \/ WalkType
    \/ WalkThrow
    \/ Register
    \/ RegisterThrow
    \/ Compile
    \/ CompileThrow
    \/ Return
    \/ Request

Spec == Init /\ [][Next]_vars

(***************************************************************************)
(* Second specification: kValidationSchema applied to one typed position  *)
(* and one override                                                        *)
(***************************************************************************)
SynthInit ==
    /\ kAjv = NoAjv
    /\ pc = "boot"
    /\ graphqlGateway = FALSE
    /\ hookInstalled = FALSE
    /\ schema = <<>>
    /\ validationSchema = NoValidation
    /\ typeIdx = 1
    /\ schemasToRegister = <<>>
    /\ regIdx = 1
    /\ compIdx = 1
    /\ intercepted = {}
    /\ events = <<>>
    /\ passes = 0
    /\ outcome = "none"
    /\ error = [kind |-> "none", id |-> ""]
    /\ lastGood = NoAjv
    /\ completed = {}
    /\ observed = NoAjv
    /\ position \in Positions
    /\ override \in Overrides
    /\ result = Null
    /\ synthDone = FALSE

Synthesize ==
    /\ ~ synthDone
    /\ result' = kValidationSchema(getTypeInfo(position).isList, getTypeInfo(position).named,
                                    getTypeInfo(position).isNonNull, override, SynthId)
    /\ synthDone' = TRUE
    /\ UNCHANGED <<position, override>>
    /\ UNCHANGED passVars

SynthNext == Synthesize

SynthSpec == SynthInit /\ [][SynthNext]_vars


(***************************************************************************)
(* Properties of registerValidationSchema (specification Spec)             *)
(***************************************************************************)
FieldTypeUndefined == "MER_VALIDATION_ERR_FIELD_TYPE_UNDEFINED"

\* the types of the current schema the field loop runs over
WalkedTypes == {i \in DOMAIN schema : ~ startsWith(schema[i].name, "__") /\ HasGetFields(schema[i])}

FieldsOf(i) == {schema[i].fields[j] : j \in DOMAIN schema[i].fields}

\* the units a pass over schema s registers: one per input object type, one
\* per field that declares arguments
ExpectedUnitIds(s) ==
    LET walked == {i \in DOMAIN s : SubSeq(s[i].name, 1, 2) # "__" /\ s[i].kind \in {"object", "input"}} IN
    {Base \o s[i].name : i \in {j \in walked : s[j].kind = "input"}}
    \cup UNION { {Base \o s[i].name \o "/" \o s[i].fields[j].name :
                     j \in {k \in DOMAIN s[i].fields : Len(s[i].fields[k].args) > 0}} : i \in walked }

\* C1: when a pass fails after an earlier pass succeeded, the installed
\* registry is exactly the one the last successful pass installed.
C1_FailedPassKeepsRegistry ==
    (pc = "idle" /\ outcome = "failed" /\ lastGood # NoAjv) => kAjv = lastGood

\* C2: the registry a request-time validation reads is the complete registry
\* of some pass, never a replaced backend holding only part of a pass's units.
C2_ReadsCompleteRegistry ==
    observed # NoAjv => observed \in completed

\* C3: within a pass every addSchema call precedes every getSchema call; when
\* a unit is compiled every unit of the pass is registered, so the targets of
\* its forward and cyclic references are.
C3_RegisterBeforeCompile ==
    /\ \A i \in DOMAIN events : \A j \in DOMAIN events :
          (events[i].op = "getSchema" /\ events[j].op = "addSchema") => j < i
    /\ (\E i \in DOMAIN events : events[i].op = "getSchema") =>
          /\ \A k \in DOMAIN schemasToRegister : schemasToRegister[k]["$id"] \in DOMAIN kAjv.schemas
          /\ \A k \in DOMAIN schemasToRegister :
                \A t \in {n \in DOMAIN schema : schema[n].kind = "input"} :
                   (Base \o schema[t].name) \in Refs(schemasToRegister[k])
                      => (Base \o schema[t].name) \in DOMAIN kAjv.schemas

\* a unit with a forward reference (Query/message -> Filters) and the two
\* units of a cycle (Filters <-> Other) have been compiled
C3_Witness ==
    /\ schema = FilterSchema
    /\ {Base \o "Query/message", Base \o "Filters", Base \o "Other"} \subseteq kAjv.compiled

\* C4: after a successful pass the installed backend is the instance that pass
\* created and holds exactly the units of the schema that pass was given.
C4_OnlyCurrentUnits ==
    (pc = "idle" /\ outcome = "ok") =>
        /\ kAjv.inst = passes
        /\ DOMAIN kAjv.schemas = ExpectedUnitIds(schema)
        /\ kAjv.compiled = ExpectedUnitIds(schema)

\* a schema replacement succeeded after a pass over a schema with other types
C4_Witness ==
    /\ pc = "idle" /\ outcome = "ok" /\ passes = 2
    /\ schema = MutationSchema
    /\ \E c \in completed : (Base \o "Filters") \in DOMAIN c.schemas

\* C5: a field is intercepted exactly when the walk has run over its type and
\* it declares at least one argument; when the pass returns, exactly one
\* argument-object unit <type>/<field> is registered for such a field and none
\* for a field without arguments, whatever the validation schema holds.
C5_InterceptedIffArguments ==
    /\ \A i \in DOMAIN schema : \A f \in FieldsOf(i) :
          <<schema[i].name, f.name>> \in intercepted
             <=> (i \in WalkedTypes /\ i < typeIdx /\ Len(f.args) > 0)
    /\ (pc = "idle" /\ outcome = "ok") =>
          \A i \in WalkedTypes : \A f \in FieldsOf(i) :
             LET id == Base \o schema[i].name \o "/" \o f.name
                 n  == Cardinality({k \in DOMAIN schemasToRegister : schemasToRegister[k]["$id"] = id})
             IN  /\ n = IF Len(f.args) > 0 THEN 1 ELSE 0
                 /\ id \in DOMAIN kAjv.schemas <=> Len(f.args) > 0
                 /\ Len(f.args) > 0 =>
                       DOMAIN kAjv.schemas[id]["properties"]
                          = {f.args[a].name : a \in DOMAIN f.args}

\* a pass with an empty validation schema returned: Query.message and
\* Query.text are intercepted, Query.ping and the fields of Filters are not
C5_Witness ==
    /\ pc = "idle" /\ outcome = "ok"
    /\ schema = FilterSchema /\ validationSchema = NoValidation
    /\ <<"Query", "message">> \in intercepted

\* the fragments of a pass: unit k itself (<<k, "">>) and its properties
FragmentsOf(units) ==
    {<<k, "">> : k \in DOMAIN units}
    \cup UNION { {<<k, n>> : n \in DOMAIN units[k]["properties"]} : k \in DOMAIN units }

IdAt(units, p) ==
    IF p[2] = "" THEN units[p[1]]["$id"] ELSE units[p[1]]["properties"][p[2]]["$id"]

\* C8: within a pass no two fragments carry the same reference id.
C8_ReferenceIdsDistinct ==
    \A p \in FragmentsOf(schemasToRegister) : \A q \in FragmentsOf(schemasToRegister) :
        p # q => IdAt(schemasToRegister, p) # IdAt(schemasToRegister, q)

\* the walk produced type-level units, argument-object units, input field
\* fragments and argument fragments
C8_Witness ==
    /\ schema = FilterSchema
    /\ Len(schemasToRegister) = 4
    /\ Cardinality(FragmentsOf(schemasToRegister)) > 10

\* the fragment kValidationSchema builds for field j of type i of the schema
BuiltField(i, j) ==
    kValidationSchema(schema[i].fields[j].pos.isList,
                      [name |-> schema[i].fields[j].pos.leaf, kind |-> schema[i].fields[j].pos.kind],
                      schema[i].fields[j].pos.isNonNull,
                      OrNull(OrNull(validationSchema, schema[i].name), schema[i].fields[j].name),
                      Base \o schema[i].name \o "/" \o schema[i].fields[j].name)

OverrideSupplied(i, j) ==
    OrNull(OrNull(validationSchema, schema[i].name), schema[i].fields[j].name) # Null

HasStringOrListType(fragment) ==
    "type" \in DOMAIN fragment /\ fragment["type"] # TOther

\* C9: for a field of an input object type: a fragment with a string or list
\* type is a property of the type-level unit; a fragment without type whose
\* override was supplied makes the pass throw the field-type-undefined error
\* with the field's id; a fragment without concrete type and without override
\* is left out and the pass goes on.
C9_InputFieldOutcome ==
    /\ \A i \in {n \in WalkedTypes : n < typeIdx /\ schema[n].kind = "input"} :
          \E k \in DOMAIN schemasToRegister :
             /\ schemasToRegister[k]["$id"] = Base \o schema[i].name
             /\ \A j \in DOMAIN schema[i].fields :
                   /\ HasStringOrListType(BuiltField(i, j)) =>
                         /\ schema[i].fields[j].name \in DOMAIN schemasToRegister[k]["properties"]
                         /\ schemasToRegister[k]["properties"][schema[i].fields[j].name] = BuiltField(i, j)
                   /\ (~ HasStringOrListType(BuiltField(i, j)) /\ ~ OverrideSupplied(i, j)) =>
                         schema[i].fields[j].name \notin DOMAIN schemasToRegister[k]["properties"]
                   /\ ~ ("type" \notin DOMAIN BuiltField(i, j) /\ OverrideSupplied(i, j))
    /\ (pc # "pass" /\ outcome = "failed" /\ error.kind = FieldTypeUndefined) =>
          /\ typeIdx \in WalkedTypes /\ schema[typeIdx].kind = "input"
          /\ \E j \in DOMAIN schema[typeIdx].fields :
                /\ "type" \notin DOMAIN BuiltField(typeIdx, j)
                /\ OverrideSupplied(typeIdx, j)
                /\ error.id = Base \o schema[typeIdx].name \o "/" \o schema[typeIdx].fields[j].name
    /\ (pc = "pass" /\ typeIdx \in WalkedTypes /\ schema[typeIdx].kind = "input"
          /\ \E j \in DOMAIN schema[typeIdx].fields :
                "type" \notin DOMAIN BuiltField(typeIdx, j) /\ OverrideSupplied(typeIdx, j))
       => ~ ENABLED WalkType

\* the walk threw on Filters.kind, an enum field with an override that sets no type
C9_Witness ==
    /\ pc # "pass" /\ outcome = "failed" /\ error.kind = FieldTypeUndefined
    /\ error.id = Base \o "Filters/kind"

(***************************************************************************)
(* Properties of kValidationSchema (specification SynthSpec)               *)
(***************************************************************************)
\* the fragment before the merge step, for the position and override at hand
SynthBuilt ==
    Synthesized(position.isList, [name |-> position.leaf, kind |-> position.kind],
                position.isNonNull, override, SynthId)

\* C6 as stated: for every key present in both the override and the
\* synthesized fragment, except the identity keys, the result takes the
\* override's value.  The identity keys are read as widely as the claim
\* allows: $id, type and the reference $ref.
C6_OverrideWinsSharedKeys ==
    (synthDone /\ override # Null) =>
        \A k \in ((DOMAIN override) \cap (DOMAIN SynthBuilt)) \ {"$id", "type", "$ref"} :
            result[k] = override[k]

\* C6 amended: for every key present in both, identity keys included, the
\* result keeps the synthesized value; the override supplies exactly the keys
\* the synthesized fragment lacks.
C6_SynthesizedWinsSharedKeys ==
    (synthDone /\ override # Null) =>
        /\ DOMAIN result = (DOMAIN override) \cup (DOMAIN SynthBuilt)
        /\ \A k \in (DOMAIN override) \cap (DOMAIN SynthBuilt) : result[k] = SynthBuilt[k]
        /\ \A k \in (DOMAIN override) \ (DOMAIN SynthBuilt) : result[k] = override[k]
        /\ result["$id"] = SynthId

\* a nullable list with an override that sets nullable: a shared key that is
\* not an identity key
C6_Witness ==
    /\ synthDone
    /\ override = [nullable |-> FALSE, minItems |-> 1]
    /\ position.isList /\ ~ position.isNonNull
    /\ result["nullable"] = TRUE

C10_ItemNullability ==
    (synthDone /\ position.isList /\ position.kind \in Primitives) =>
        /\ result["type"] = TStr("array")
        /\ result["nullable"] = ~ position.isNonNull
        /\ (override = Null \/ "items" \notin DOMAIN override) =>
              result["items"]["type"]
                 = IF position.itemIsNonNull
                   THEN TStr(JSONTypeName(position.kind))
                   ELSE TArr(<<JSONTypeName(position.kind), "null">>)

=============================================================================
